---- MODULE Spec2Model ----
(***************************************************************************)
(* Model of the task-analyzer scoring engine (backend/tasks/scoring.py):   *)
(* detect_circular_dependencies, the component scorers, score_task and     *)
(* analyze_tasks.                                                          *)
(*                                                                         *)
(* Numbers are fixed point integers:                                       *)
(*   hours            in 1/100 hour            (300 = 3.0 h)               *)
(*   component scores in 1/10000               (142500 = 14.25)            *)
(*   weights          in 1/100                 (65 = 0.65)                 *)
(*   raw weighted sum in 1/1000000                                         *)
(*   rounded score    in 1/100                 (475 = 4.75)                *)
(*   dates            as day ordinals                                      *)
(* A Python value that may be absent, None or ill-typed is a record        *)
(* [k |-> kind, v |-> payload].                                            *)
(***************************************************************************)
EXTENDS Integers, Sequences, FiniteSets, TLC

VARIABLES tasks, target, strategy, config, user_preferences, today, midnight,
          limit, request, pc, result

vars == <<tasks, target, strategy, config, user_preferences, today, midnight,
          limit, request, pc, result>>

(***************************************************************************)
(* Bounds of the model.                                                    *)
(***************************************************************************)
MaxTasks == 3
MaxDeps == 2
MaxRing == 6
MaxEdges == 6
MaxOverdueDays == 12
MaxDaysAhead == 32
MaxQuarterHours == 44
MaxDependents == 10
MaxImportance == 15
MaxNegativeImportance == 3
MaxLimit == 4

(***************************************************************************)
(* Python values.                                                          *)
(***************************************************************************)
Absent == [k |-> "absent", v |-> 0]
Null == [k |-> "null", v |-> 0]
BadStr == [k |-> "badstr", v |-> 0]
\* an int below the range of a float, such as -10**400
NegativeBigInt == [k |-> "bigint", v |-> -1]
Num(n) == [k |-> "num", v |-> n]
Iso(d) == [k |-> "iso", v |-> d]
NoTitle == [k |-> "absent", v |-> ""]
NullTitle == [k |-> "null", v |-> ""]
Str(s) == [k |-> "str", v |-> s]
NoId == [k |-> "absent", v |-> 0]
Id(i) == [k |-> "val", v |-> i]

TitleNames == <<"Task 1", "Task 2", "Task 3", "Task 4", "Task 5", "Task 6",
               "Task 7", "Task 8">>

NoExc == "none"

\* `field in task and task[field] is not None`
Present(x) == x.k \notin {"absent", "null"}

\* max where the code takes min
Larger(a, b) == IF a >= b THEN a ELSE b

Min(a, b) == IF a <= b THEN a ELSE b
Max(a, b) == IF a >= b THEN a ELSE b
Abs(a) == IF a < 0 THEN -a ELSE a

Range(s) == {s[i] : i \in 1..Len(s)}

(***************************************************************************)
(* detect_circular_dependencies                                            *)
(***************************************************************************)

\* task_map = {task['id']: task for task in tasks}: a later task with the
\* same id replaces an earlier one.  The value is the position in the batch.
TaskMapKeys(ts) == {ts[i].id.v : i \in 1..Len(ts)}

TaskMapGet(ts, tid) ==
    CHOOSE i \in 1..Len(ts) :
        /\ ts[i].id.v = tid
        /\ \A j \in (i + 1)..Len(ts) : ts[j].id.v # tid

\* path.index(task_id): 0 stands for the ValueError of a value not in the list
PathIndex(path, tid) ==
    IF tid \in Range(path)
    THEN CHOOSE i \in 1..Len(path) :
             path[i] = tid /\ \A j \in 1..(i - 1) : path[j] # tid
    ELSE 0

\* path[cycle_start + 1:]: the slice taken one position too late
CycleMembersAfterStart(path, cycle_start) ==
    {path[i] : i \in (cycle_start + 1)..Len(path)}

\* the whole path, the tasks that only lead to the cycle included
CycleMembersWholePath(path, cycle_start) ==
    {path[i] : i \in 1..Len(path)}

\* path[cycle_start:] as the set handed to circular_tasks.update
CycleMembers(path, cycle_start) ==
    {path[i] : i \in cycle_start..Len(path)}

DfsState0 ==
    [visited |-> {}, rec_stack |-> {}, circular_tasks |-> {}, path |-> <<>>,
     exc |-> NoExc]

RECURSIVE dfs(_, _, _)
RECURSIVE dfsDeps(_, _, _, _)

\* the loop leaving at the first id that names no task, instead of
\* passing over it
dfsDepsStopAtMissing(ts, deps, i, st) ==
    IF i > Len(deps) THEN [ret |-> FALSE, st |-> st]
    ELSE IF deps[i] \in TaskMapKeys(ts)
         THEN LET r == dfs(ts, deps[i], st)
              IN  IF r.st.exc # NoExc \/ r.ret THEN r
                  ELSE dfsDeps(ts, deps, i + 1, r.st)
         ELSE [ret |-> FALSE, st |-> st]

\* the `for dep_id in task.get('dependencies', [])` loop of dfs, from
\* position i of the list
dfsDeps(ts, deps, i, st) ==
    IF i > Len(deps) THEN [ret |-> FALSE, st |-> st]
    ELSE IF deps[i] \in TaskMapKeys(ts)
         THEN LET r == dfs(ts, deps[i], st)
              IN  IF r.st.exc # NoExc \/ r.ret THEN r
                  ELSE dfsDeps(ts, deps, i + 1, r.st)
         ELSE dfsDeps(ts, deps, i + 1, st)

dfs(ts, task_id, st) ==
    IF task_id \in st.rec_stack
    THEN LET cycle_start == PathIndex(st.path, task_id)
         IN  IF cycle_start = 0
             THEN [ret |-> FALSE, st |-> [st EXCEPT !.exc = "ValueError"]]
             ELSE [ret |-> TRUE,
                   st |-> [st EXCEPT !.circular_tasks =
                              @ \cup CycleMembers(st.path, cycle_start)]]
    ELSE IF task_id \in st.visited
    THEN [ret |-> FALSE, st |-> st]
    ELSE LET st1 == [st EXCEPT !.visited = @ \cup {task_id},
                               !.rec_stack = @ \cup {task_id},
                               !.path = Append(@, task_id)]
             r == dfsDeps(ts, ts[TaskMapGet(ts, task_id)].dependencies, 1,
                          st1)
         IN  IF r.st.exc # NoExc \/ r.ret THEN r
             ELSE [ret |-> FALSE,
                   st |-> [r.st EXCEPT !.rec_stack = @ \ {task_id},
                                       !.path = SubSeq(@, 1, Len(@) - 1)]]

\* the `for task in tasks: if task['id'] not in visited: dfs(task['id'], [])`
\* loop, from position i of the batch
RECURSIVE CheckEachTask(_, _, _)
CheckEachTask(ts, i, st) ==
    IF i > Len(ts) \/ st.exc # NoExc THEN st
    ELSE IF ts[i].id.v \in st.visited
         THEN CheckEachTask(ts, i + 1, st)
         ELSE CheckEachTask(ts, i + 1,
                            dfs(ts, ts[i].id.v, [st EXCEPT !.path = <<>>]).st)

\* ascending enumeration of a set of ids
RECURSIVE SetToSeq(_)
SetToSeq(S) ==
    IF S = {} THEN <<>>
    ELSE LET m == CHOOSE x \in S : \A y \in S : x <= y
         IN  <<m>> \o SetToSeq(S \ {m})

\* [task_map[task_id]['title'] for task_id in circular_tasks ...]
TitlesOf(ts, ids) ==
    [i \in 1..Len(ids) |-> ts[TaskMapGet(ts, ids[i])].title]

detect_circular_dependencies(ts) ==
    IF \E i \in 1..Len(ts) : ts[i].id.k = "absent"
    THEN [exc |-> "KeyError", titles |-> <<>>]
    ELSE LET st == CheckEachTask(ts, 1, DfsState0)
             ids == SetToSeq(st.circular_tasks)
         IN  IF st.exc # NoExc THEN [exc |-> st.exc, titles |-> <<>>]
             ELSE IF \E i \in 1..Len(ids) :
                        ts[TaskMapGet(ts, ids[i])].title.k = "absent"
             THEN [exc |-> "KeyError", titles |-> <<>>]
             ELSE [exc |-> NoExc, titles |-> TitlesOf(ts, ids)]

(***************************************************************************)
(* Rounding: round(x, n) as round-half-even on the exact decimal value.    *)
(* The code rounds a binary float: where the exact value lies half way     *)
(* between two results (3.825) the float's representation error decides    *)
(* and the code may return either neighbour; everywhere else the two       *)
(* agree.  hours ** 1.5 is truncated to 1/10000.                           *)
(***************************************************************************)
RoundDiv(n, d) ==
    LET q == n \div d
        r == n % d
    IN  IF 2 * r > d \/ (2 * r = d /\ q % 2 = 1) THEN q + 1 ELSE q

(***************************************************************************)
(* calculate_urgency_score(due_date_str, max_score = 10.0, crisis_mode),   *)
(* evaluated on the day `now` (the value date.today() returns).            *)
(***************************************************************************)
MaxScore == 100000
OverdueCap == 150000

UrgencyBucket(days_until_due, crisis_mode) ==
    LET multiplier == IF crisis_mode THEN 15 ELSE 10
    IN  IF days_until_due < 0
        THEN LET overdue_penalty ==
                     Abs(days_until_due) * (IF crisis_mode THEN 10000 ELSE 5000)
             IN  [score |-> (Min(MaxScore + overdue_penalty, OverdueCap)
                                * multiplier) \div 10,
                  label |-> "OVERDUE"]
        ELSE IF days_until_due = 0
        THEN [score |-> (MaxScore * multiplier) \div 10, label |-> "Due Today"]
        ELSE IF days_until_due = 1
        THEN [score |-> (MaxScore * 95 * multiplier) \div 1000,
              label |-> "Due Tomorrow"]
        ELSE IF days_until_due <= 3
        THEN [score |-> (MaxScore * 85 * multiplier) \div 1000,
              label |-> "Due in 2-3 days"]
        ELSE IF days_until_due <= 7
        THEN [score |-> (MaxScore * 65 * multiplier) \div 1000,
              label |-> "Due this week"]
        ELSE IF days_until_due <= 14
        THEN [score |-> (MaxScore * 45 * multiplier) \div 1000,
              label |-> "Due in 2 weeks"]
        ELSE IF days_until_due <= 30
        THEN [score |-> (MaxScore * 25 * multiplier) \div 1000,
              label |-> "Due this month"]
        ELSE [score |-> MaxScore \div 10, label |-> "Future task"]

\* date.fromisoformat: a date for an ISO string, ValueError for any other
\* string, TypeError for a value that is no string
FromIsoFormat(x) ==
    IF x.k = "iso" THEN [exc |-> NoExc, v |-> x.v]
    ELSE IF x.k = "badstr" THEN [exc |-> "ValueError", v |-> 0]
    ELSE [exc |-> "TypeError", v |-> 0]

\* days_until_due taken as today - due_date
calculate_urgency_scoreDaysSinceDue(due_date_str, crisis_mode, now) ==
    LET due_date == FromIsoFormat(due_date_str)
    IN  IF due_date.exc # NoExc
        THEN [score |-> 10000, label |-> "No deadline"]
        ELSE UrgencyBucket(now - due_date.v, crisis_mode)

\* `except ValueError:` alone: the TypeError of a value that is no string
\* leaves the function
calculate_urgency_scoreValueErrorOnly(due_date_str, crisis_mode, now) ==
    LET due_date == FromIsoFormat(due_date_str)
    IN  IF due_date.exc = "ValueError"
        THEN [score |-> 10000, label |-> "No deadline"]
        ELSE IF due_date.exc # NoExc
        THEN [score |-> 0, label |-> due_date.exc]
        ELSE UrgencyBucket(due_date.v - now, crisis_mode)

calculate_urgency_score(due_date_str, crisis_mode, now) ==
    LET due_date == FromIsoFormat(due_date_str)
    IN  IF due_date.exc # NoExc
        THEN [score |-> 10000, label |-> "No deadline"]
        ELSE UrgencyBucket(due_date.v - now, crisis_mode)

(***************************************************************************)
(* calculate_effort_score(estimated_hours, strategy, energy_level)         *)
(***************************************************************************)
\* floor of the square root, by bisection on lo <= root < hi
RECURSIVE IsqrtBetween(_, _, _)
IsqrtBetween(n, lo, hi) ==
    IF hi - lo <= 1 THEN lo
    ELSE LET mid == (lo + hi) \div 2
         IN  IF mid * mid <= n THEN IsqrtBetween(n, mid, hi)
             ELSE IsqrtBetween(n, lo, mid)

Isqrt(n) == IsqrtBetween(n, 0, 46341)

\* hours ** 1.5 in 1/10000, truncated; hours below 5.0 only
Pow15(hours) == (hours * Isqrt(hours * 1000000)) \div 100

\* float(x): the number, ValueError for a non-numeric string, OverflowError
\* for an int beyond the range of a float, TypeError for None
ToFloat(x) ==
    IF x.k = "num" THEN [exc |-> NoExc, v |-> x.v]
    ELSE IF x.k = "badstr" THEN [exc |-> "ValueError", v |-> 0]
    ELSE IF x.k = "bigint" THEN [exc |-> "OverflowError", v |-> 0]
    ELSE [exc |-> "TypeError", v |-> 0]

EnergyModifier(energy_level) ==
    IF energy_level = "low" THEN 7
    ELSE IF energy_level = "high" THEN 13
    ELSE 10

EffortLabel(hours) ==
    IF hours <= 50 THEN "Quick (< 30 min)"
    ELSE IF hours <= 100 THEN "Short (< 1 hour)"
    ELSE IF hours <= 200 THEN "Medium (1-2 hours)"
    ELSE IF hours <= 400 THEN "Focused (2-4 hours)"
    ELSE "Deep work (4+ hours)"

\* 10.0 + hours ** 1.5 below the ceiling: the sign of the decay reversed
FastWinsBaseGrowing(hours) ==
    IF hours >= 500 THEN 100000 ELSE Min(10000 + Pow15(hours), 100000)

\* max(10.0 - hours ** 1.5, 1.0): hours ** 1.5 exceeds 9 from 4.33 h on
FastWinsBase(hours) ==
    IF hours >= 500 THEN 10000 ELSE Max(100000 - Pow15(hours), 10000)

\* the energy modifier applied in every strategy
EffortFormulaEnergyEverywhere(hours, strat, energy_level) ==
    (( IF strat = "fast_wins" THEN FastWinsBase(hours)
       ELSE IF strat = "high_impact" THEN Max(60000 - hours * 20, 40000)
       ELSE IF strat = "deadline_driven" THEN Max(70000 - hours * 30, 20000)
       ELSE Max(80000 - hours * 50, 10000) )
     * EnergyModifier(energy_level)) \div 10

EffortFormula(hours, strat, energy_level) ==
    IF strat = "fast_wins"
    THEN (FastWinsBase(hours) * EnergyModifier(energy_level)) \div 10
    ELSE IF strat = "high_impact"
    THEN Max(60000 - hours * 20, 40000)
    ELSE IF strat = "deadline_driven"
    THEN Max(70000 - hours * 30, 20000)
    ELSE (Max(80000 - hours * 50, 10000) * EnergyModifier(energy_level))
             \div 10

\* exc is the exception that leaves the function: `except (ValueError,
\* TypeError)` catches these two alone
calculate_effort_score(estimated_hours, strat, energy_level) ==
    LET hours == ToFloat(estimated_hours)
    IN  IF hours.exc \in {"ValueError", "TypeError"}
        THEN [exc |-> NoExc, score |-> 10000, label |-> "Unknown effort"]
        ELSE IF hours.exc # NoExc
        THEN [exc |-> hours.exc, score |-> 0, label |-> ""]
        ELSE IF hours.v <= 0
        THEN [exc |-> NoExc, score |-> 10000, label |-> "Quick task"]
        ELSE [exc |-> NoExc,
              score |-> EffortFormula(hours.v, strat, energy_level),
              label |-> EffortLabel(hours.v)]

(***************************************************************************)
(* calculate_dependency_boost(task, all_tasks); the task has an id         *)
(***************************************************************************)
DependentCount(task, all_tasks) ==
    Cardinality({i \in 1..Len(all_tasks) :
                    task.id.v \in Range(all_tasks[i].dependencies)})

calculate_dependency_boost(task, all_tasks) ==
    DependentCount(task, all_tasks) * 20000

(***************************************************************************)
(* score_task(task, strategy, config, all_tasks, user_preferences)         *)
(***************************************************************************)
Strategies == {"fast_wins", "high_impact", "deadline_driven", "smart_balance"}

W(u, i, e, d) ==
    [k |-> "weights", urgency |-> u, importance |-> i, effort |-> e,
     dependency |-> d]

NoWeights == [k |-> "absent", urgency |-> 0, importance |-> 0, effort |-> 0,
              dependency |-> 0]

\* config = {}: no key of the mapping is set
EmptyConfig == [s \in Strategies |-> NoWeights]

\* the defaults with the importance weight of high_impact left at 0
DefaultWeightsWithoutImportance(strat) ==
    IF strat = "fast_wins" THEN W(25, 15, 50, 10)
    ELSE IF strat = "high_impact" THEN W(15, 0, 10, 20)
    ELSE IF strat = "deadline_driven" THEN W(65, 15, 10, 10)
    ELSE W(30, 30, 20, 20)

DefaultWeights(strat) ==
    IF strat = "fast_wins" THEN W(25, 15, 50, 10)
    ELSE IF strat = "high_impact" THEN W(15, 55, 10, 20)
    ELSE IF strat = "deadline_driven" THEN W(65, 15, 10, 10)
    ELSE W(30, 30, 20, 20)

\* the branch of the if/elif chain a strategy name takes
StrategyBranch(strat) == IF strat \in Strategies THEN strat ELSE "smart_balance"

\* config.get('<strategy>_weights', {...defaults...})
Weights(strat, cfg) ==
    IF cfg[StrategyBranch(strat)].k = "weights"
    THEN cfg[StrategyBranch(strat)]
    ELSE DefaultWeights(strat)

StrategyReason(strat) ==
    IF strat = "fast_wins" THEN "Quick completion for maximum momentum"
    ELSE IF strat = "high_impact" THEN "High-value task for maximum impact"
    ELSE IF strat = "deadline_driven"
    THEN "Urgent deadline - immediate attention required"
    ELSE "Balanced prioritization for optimal productivity"

required_fields == <<"title", "due_date", "estimated_hours", "importance">>

\* `field not in task` alone: a None value passes for a present one
FieldMissingAbsentOnly(x) == x.k = "absent"

\* [field for field in required_fields
\*        if field not in task or task[field] is None]
FieldMissing(x) == ~Present(x)

RECURSIVE SelectSeq2(_, _, _)
SelectSeq2(s, task, i) ==
    IF i > Len(s) THEN <<>>
    ELSE (IF FieldMissing(task[s[i]]) THEN <<s[i]>> ELSE <<>>)
             \o SelectSeq2(s, task, i + 1)

MissingFields(task) == SelectSeq2(required_fields, task, 1)

EmptyMeta ==
    [k |-> "empty", urgency_label |-> "", effort_label |-> "",
     urgency_score |-> 0, effort_score |-> 0, importance_score |-> 0,
     dependency_boost |-> 0]

EnergyLevel(prefs) ==
    IF prefs.energy_level = "absent" THEN "medium" ELSE prefs.energy_level

\* min(raw_score, 10): the lower end left open
ClampAbove(raw_score) == Min(raw_score, 10000000)

\* min(max(raw_score, 0), 10) on the raw sum in 1/1000000
Clamp(raw_score) == Min(Max(raw_score, 0), 10000000)

UrgencyDetail(u) ==
    IF u.label = "OVERDUE" THEN <<"OVERDUE">>
    ELSE IF u.label = "Due Today" THEN <<"Due today">>
    ELSE IF u.label = "Due Tomorrow" THEN <<"Due tomorrow">>
    ELSE IF u.score > 70000 THEN <<u.label>>
    ELSE <<>>

ImportanceDetail(importance) ==
    IF importance >= 9 THEN <<"Critical importance">>
    ELSE IF importance >= 7 THEN <<"High importance">>
    ELSE <<>>

EffortDetail(e) == IF e.score > 70000 THEN <<"Quick win">> ELSE <<>>

DependencyDetail(dependency_boost) ==
    IF dependency_boost > 0 THEN <<"Blocks tasks">> ELSE <<>>

score_task(task, strat, cfg, all_tasks, prefs, now) ==
    LET missing_fields == MissingFields(task)
        crisis_mode == (strat = "deadline_driven")
        u == calculate_urgency_score(task.due_date, crisis_mode, now)
        importance == ToFloat(task.importance)
        e == calculate_effort_score(task.estimated_hours, strat,
                                    EnergyLevel(prefs))
        dependency_boost == calculate_dependency_boost(task, all_tasks)
        weights == Weights(strat, cfg)
        raw_score == u.score * weights.urgency
                       + importance.v * 10000 * weights.importance
                       + e.score * weights.effort
                       + dependency_boost * weights.dependency
    IN  IF missing_fields # <<>>
        THEN [exc |-> NoExc, score |-> 0,
              reason |-> [base |-> "Missing required fields",
                          details |-> missing_fields],
              metadata |-> EmptyMeta]
        ELSE IF importance.exc # NoExc
        THEN [exc |-> importance.exc, score |-> 0,
              reason |-> [base |-> "", details |-> <<>>],
              metadata |-> EmptyMeta]
        ELSE IF e.exc # NoExc
        THEN [exc |-> e.exc, score |-> 0,
              reason |-> [base |-> "", details |-> <<>>],
              metadata |-> EmptyMeta]
        ELSE IF task.id.k = "absent"
        THEN [exc |-> "KeyError", score |-> 0,
              reason |-> [base |-> "", details |-> <<>>],
              metadata |-> EmptyMeta]
        ELSE [exc |-> NoExc,
              score |-> RoundDiv(Clamp(raw_score), 10000),
              reason |-> [base |-> StrategyReason(strat),
                          details |-> UrgencyDetail(u)
                                        \o ImportanceDetail(importance.v)
                                        \o EffortDetail(e)
                                        \o DependencyDetail(dependency_boost)],
              metadata |-> [k |-> "full",
                            urgency_label |-> u.label,
                            effort_label |-> e.label,
                            urgency_score |-> RoundDiv(u.score, 100),
                            effort_score |-> RoundDiv(e.score, 100),
                            importance_score |-> importance.v,
                            dependency_boost |->
                                RoundDiv(dependency_boost, 100)]]

(***************************************************************************)
(* analyze_tasks(tasks, strategy, config, user_preferences)                *)
(*                                                                         *)
(* date.today() is read once per scored task (in calculate_urgency_score)  *)
(* and once for the insights.  clk = [t |-> day at the start of the call,  *)
(* m |-> 0, or the number of the first reading that falls on the next      *)
(* day]; reading i is the scoring of the i-th task, reading Len(tasks) + 1 *)
(* the one of the insights.                                                *)
(***************************************************************************)
NowAt(clk, reading) ==
    IF clk.m # 0 /\ reading >= clk.m THEN clk.t + 1 ELSE clk.t

DefaultAvailableHours == 800

\* user_preferences.get('available_hours', 8)
AvailableHours(prefs) ==
    IF prefs.available_hours.k = "absent" THEN DefaultAvailableHours
    ELSE prefs.available_hours.v

NoPreferences == [available_hours |-> Absent, energy_level |-> "absent"]

PriorityLevel(score) ==
    IF score >= 900 THEN "Critical"
    ELSE IF score >= 700 THEN "High"
    ELSE IF score >= 500 THEN "Medium"
    ELSE "Low"

\* task.get('estimated_hours', 0)
HoursOrZero(task) ==
    IF task.estimated_hours.k = "absent" THEN Num(0) ELSE task.estimated_hours

\* task.get('title', 'Unknown')
TitleOrUnknown(task) ==
    IF task.title.k = "absent" THEN Str("Unknown") ELSE task.title

CircularWarning(titles) ==
    [kind |-> "circular", titles |-> titles, exc |-> NoExc]

ErrorWarning(task, exc) ==
    [kind |-> "error", titles |-> <<TitleOrUnknown(task)>>, exc |-> exc]

\* the body of the `for task in tasks: try: ... except Exception` loop for
\* the task at position i
ScoreOne(ts, i, strat, cfg, prefs, clk, acc) ==
    LET r == score_task(ts[i], strat, cfg, ts, prefs, NowAt(clk, i))
        task_hours == ToFloat(HoursOrZero(ts[i]))
    IN  IF r.exc # NoExc
        THEN [acc EXCEPT !.warnings = Append(@, ErrorWarning(ts[i], r.exc))]
        ELSE IF task_hours.exc # NoExc
        THEN [acc EXCEPT !.warnings =
                             Append(@, ErrorWarning(ts[i], task_hours.exc))]
        ELSE [acc EXCEPT
                 !.total_hours = @ + task_hours.v,
                 !.scored_tasks =
                     Append(@, [pos |-> i, task |-> ts[i], score |-> r.score,
                                reason |-> r.reason,
                                priority_level |-> PriorityLevel(r.score),
                                metadata |-> r.metadata,
                                can_complete_today |-> "unset"])]

RECURSIVE ScoreAll(_, _, _, _, _, _, _)
ScoreAll(ts, i, strat, cfg, prefs, clk, acc) ==
    IF i > Len(ts) THEN acc
    ELSE ScoreAll(ts, i + 1, strat, cfg, prefs, clk,
                  ScoreOne(ts, i, strat, cfg, prefs, clk, acc))

\* an insertion that puts the row before the rows of equal score
InsertByScoreBeforeEqual(sorted, row) ==
    LET n == Cardinality({j \in 1..Len(sorted) : sorted[j].score > row.score})
    IN  SubSeq(sorted, 1, n) \o <<row>> \o SubSeq(sorted, n + 1, Len(sorted))

\* one insertion of list.sort(key = score, reverse = True): the row goes
\* behind every row whose score is not smaller
InsertByScore(sorted, row) ==
    LET n == Cardinality({j \in 1..Len(sorted) : sorted[j].score >= row.score})
    IN  SubSeq(sorted, 1, n) \o <<row>> \o SubSeq(sorted, n + 1, Len(sorted))

RECURSIVE SortByScore(_, _, _)
SortByScore(rows, i, sorted) ==
    IF i > Len(rows) THEN sorted
    ELSE SortByScore(rows, i + 1, InsertByScore(sorted, rows[i]))

\* `<` for `<=`: a task that fills the budget exactly is left out
FitsStrictly(cumulative_hours, task_hours, available_hours) ==
    cumulative_hours + task_hours < available_hours

\* `if cumulative_hours + task_hours <= available_hours`
Fits(cumulative_hours, task_hours, available_hours) ==
    cumulative_hours + task_hours <= available_hours

\* the flag written into the task record the row refers to as well (in
\* place of its title)
SetCanCompleteTodayOnTask(row, flag) ==
    [row EXCEPT !.can_complete_today = flag,
                !.task = [@ EXCEPT !.title = Str(flag)]]

\* st['can_complete_today'] = True / False: a key of the row
SetCanCompleteToday(row, flag) == [row EXCEPT !.can_complete_today = flag]

\* a walk whose running total grows for the rows that do not fit as well
RECURSIVE MarkTodayCountingEveryRow(_, _, _, _)
MarkTodayCountingEveryRow(rows, i, available_hours, acc) ==
    IF i > Len(rows) THEN acc
    ELSE LET task_hours == ToFloat(HoursOrZero(rows[i].task)).v
             fits == Fits(acc.cumulative_hours, task_hours, available_hours)
         IN  MarkTodayCountingEveryRow(rows, i + 1, available_hours,
                 [cumulative_hours |-> acc.cumulative_hours + task_hours,
                  tasks_today |-> acc.tasks_today + (IF fits THEN 1 ELSE 0),
                  rows |-> Append(acc.rows,
                      SetCanCompleteToday(rows[i],
                                          IF fits THEN "yes" ELSE "no"))])

\* the feasibility walk over the sorted rows, from position i
RECURSIVE MarkToday(_, _, _, _)
MarkToday(rows, i, available_hours, acc) ==
    IF i > Len(rows) THEN acc
    ELSE LET task_hours == ToFloat(HoursOrZero(rows[i].task)).v
         IN  IF Fits(acc.cumulative_hours, task_hours, available_hours)
             THEN MarkToday(rows, i + 1, available_hours,
                      [cumulative_hours |-> acc.cumulative_hours + task_hours,
                       tasks_today |-> acc.tasks_today + 1,
                       rows |-> Append(acc.rows,
                           SetCanCompleteToday(rows[i], "yes"))])
             ELSE MarkToday(rows, i + 1, available_hours,
                      [acc EXCEPT !.rows = Append(@,
                           SetCanCompleteToday(rows[i], "no"))])

\* date.fromisoformat(t.get('due_date', str(today))) < today, for the task
\* at position i; the generator stops at the first exception
RECURSIVE OverdueCount(_, _, _, _)
OverdueCount(ts, i, now, acc) ==
    IF i > Len(ts) \/ acc.exc # NoExc THEN acc
    ELSE LET d == FromIsoFormat(IF ts[i].due_date.k = "absent" THEN Iso(now)
                                ELSE ts[i].due_date)
         IN  IF d.exc # NoExc
             THEN [exc |-> d.exc, n |-> acc.n]
             ELSE OverdueCount(ts, i + 1, now,
                      [acc EXCEPT !.n = @ + (IF d.v < now THEN 1 ELSE 0)])

EmptyInsights ==
    [k |-> "empty", total_hours_needed |-> 0, available_hours |-> 0,
     tasks_completable_today |-> 0, hours_completable_today |-> 0,
     overdue_tasks |-> 0, urgent_tasks |-> 0, energy_level |-> "",
     productivity_ratio |-> 0]

\* the ratio taken from the hours as reported, rounded to one decimal
ProductivityRatioOfRoundedHours(cumulative_hours, available_hours) ==
    IF available_hours > 0
    THEN RoundDiv(RoundDiv(cumulative_hours, 10) * 10000, available_hours)
    ELSE 0

\* round(cumulative_hours / available_hours * 100, 1) in 1/10 percent
ProductivityRatio(cumulative_hours, available_hours) ==
    IF available_hours > 0
    THEN RoundDiv(cumulative_hours * 1000, available_hours)
    ELSE 0

Raised(exc) ==
    [exc |-> exc, analyzed_tasks |-> <<>>, total_tasks |-> 0,
     circular_dependencies |-> <<>>, warnings |-> <<>>,
     insights |-> EmptyInsights]

\* the guard never taken: an empty batch goes through the analysis
NotTasksNever(ts) == FALSE

\* `if not tasks:`
NotTasks(ts) == ts = <<>>

analyze_tasks(ts, strat, cfg, prefs, clk) ==
    IF NotTasks(ts)
    THEN [exc |-> NoExc, analyzed_tasks |-> <<>>, total_tasks |-> 0,
          circular_dependencies |-> <<>>,
          warnings |-> <<[kind |-> "No tasks provided for analysis",
                          titles |-> <<>>, exc |-> NoExc]>>,
          insights |-> EmptyInsights]
    ELSE
    LET circular_deps == detect_circular_dependencies(ts)
        warnings0 == IF circular_deps.titles # <<>>
                     THEN <<CircularWarning(circular_deps.titles)>>
                     ELSE <<>>
        available_hours == AvailableHours(prefs)
        scored == ScoreAll(ts, 1, strat, cfg, prefs, clk,
                           [scored_tasks |-> <<>>, total_hours |-> 0,
                            warnings |-> warnings0])
        sorted == SortByScore(scored.scored_tasks, 1, <<>>)
        walk == MarkToday(sorted, 1, available_hours,
                          [cumulative_hours |-> 0, tasks_today |-> 0,
                           rows |-> <<>>])
        overdue == OverdueCount(ts, 1, NowAt(clk, Len(ts) + 1),
                                [exc |-> NoExc, n |-> 0])
        urgent_count ==
            Cardinality({j \in 1..Len(walk.rows) : walk.rows[j].score >= 700})
    IN  IF circular_deps.exc # NoExc THEN Raised(circular_deps.exc)
        ELSE IF overdue.exc # NoExc THEN Raised(overdue.exc)
        ELSE [exc |-> NoExc,
              analyzed_tasks |-> walk.rows,
              total_tasks |-> Len(walk.rows),
              circular_dependencies |-> circular_deps.titles,
              warnings |-> scored.warnings,
              insights |->
                  [k |-> "full",
                   total_hours_needed |-> RoundDiv(scored.total_hours, 10),
                   available_hours |-> available_hours,
                   tasks_completable_today |-> walk.tasks_today,
                   hours_completable_today |->
                       RoundDiv(walk.cumulative_hours, 10),
                   overdue_tasks |-> overdue.n,
                   urgent_tasks |-> urgent_count,
                   energy_level |-> EnergyLevel(prefs),
                   productivity_ratio |->
                       ProductivityRatio(walk.cumulative_hours,
                                         available_hours)]]

\* the input batch after the call: 'task': task puts the task record itself
\* into the row, so what is written through a row is written to the input
InputBatchAfter(ts, rows) ==
    [i \in 1..Len(ts) |->
        IF \E j \in 1..Len(rows) : rows[j].pos = i
        THEN rows[CHOOSE j \in 1..Len(rows) : rows[j].pos = i].task
        ELSE ts[i]]

(***************************************************************************)
(* get_top_suggestions(tasks, strategy, limit)                             *)
(***************************************************************************)
\* the default of the parameter limit
DefaultLimit == 3

\* s[:n] for n >= 0
Slice(s, n) == SubSeq(s, 1, Min(n, Len(s)))

\* the returned record, from the analysis; an exception of analyze_tasks
\* propagates
SuggestionsOf(analysis, lim) ==
    IF analysis.exc # NoExc
    THEN [exc |-> analysis.exc, suggestions |-> <<>>, total_evaluated |-> 0]
    ELSE [exc |-> NoExc,
          suggestions |-> Slice(analysis.analyzed_tasks, lim),
          total_evaluated |-> analysis.total_tasks]

get_top_suggestions(ts, strat, lim, clk) ==
    SuggestionsOf(analyze_tasks(ts, strat, EmptyConfig, NoPreferences, clk),
                  lim)

(***************************************************************************)
(* views.py: AnalyzeTasksView.post and SuggestTasksView.post.  A request   *)
(* is the payload's tasks field ("absent", "null" or "list", the list      *)
(* being the batch) and whether the payload names a strategy.              *)
(***************************************************************************)
HTTP_200_OK == 200
HTTP_400_BAD_REQUEST == 400
HTTP_500_INTERNAL_SERVER_ERROR == 500

\* no request: the functions of scoring.py are called directly
NoRequest == [tasks |-> "absent", strategy |-> "absent"]

ErrorResponse(view, code, error) ==
    [exc |-> NoExc, view |-> view, status |-> code,
     body |-> [k |-> "error", error |-> error]]

\* `if hasattr(request, 'data') and request.data:` is false for a payload
\* without any key; the view then reads request.body again
EmptyData(req) == req.tasks = "absent" /\ req.strategy = "absent"

\* what reading request.body after request.data can do: give the payload
\* again, or raise because the stream was consumed
BodyRereads == {"parsed", "raised"}

\* data.get('strategy', 'smart_balance')
DataStrategy(req, strat) ==
    IF req.strategy = "absent" THEN "smart_balance" ELSE strat

\* 'tasks' in data and isinstance(data['tasks'], list)
TasksFieldIsList(req, ts) == req.tasks = "list"

\* the response built from the analysis; `except Exception` answers 500
AnalysisResponse(analysis_result) ==
    IF analysis_result.exc # NoExc
    THEN ErrorResponse("analyze", HTTP_500_INTERNAL_SERVER_ERROR,
                       "Internal server error")
    ELSE [exc |-> NoExc, view |-> "analyze", status |-> HTTP_200_OK,
          body |-> [k |-> "analysis",
                    analyzed_tasks |-> analysis_result.analyzed_tasks,
                    total_tasks |-> analysis_result.total_tasks,
                    insights |-> analysis_result.insights,
                    warnings |-> analysis_result.warnings]]

AnalyzeTasksView_post(req, ts, strat, cfg, prefs, reread, clk) ==
    IF EmptyData(req) /\ reread = "raised"
    THEN ErrorResponse("analyze", HTTP_500_INTERNAL_SERVER_ERROR,
                       "Internal server error")
    ELSE IF ~TasksFieldIsList(req, ts)
    THEN ErrorResponse("analyze", HTTP_400_BAD_REQUEST,
             "Invalid input data - tasks field is required and must be a list")
    ELSE AnalysisResponse(analyze_tasks(ts, DataStrategy(req, strat), cfg,
                                        prefs, clk))

\* tasks_data = data.get('tasks', []); `if not tasks_data:`
NotTasksData(req, ts) == req.tasks # "list" \/ ts = <<>>

\* Response(suggestions_result); `except Exception` answers 500
SuggestionsResponse(suggestions_result) ==
    IF suggestions_result.exc # NoExc
    THEN ErrorResponse("suggest", HTTP_500_INTERNAL_SERVER_ERROR,
                       "Internal server error")
    ELSE [exc |-> NoExc, view |-> "suggest", status |-> HTTP_200_OK,
          body |-> [k |-> "suggestions",
                    suggestions |-> suggestions_result.suggestions,
                    total_evaluated |-> suggestions_result.total_evaluated]]

SuggestTasksView_post(req, ts, strat, reread, clk) ==
    IF EmptyData(req) /\ reread = "raised"
    THEN ErrorResponse("suggest", HTTP_500_INTERNAL_SERVER_ERROR,
                       "Internal server error")
    ELSE IF NotTasksData(req, ts)
    THEN ErrorResponse("suggest", HTTP_400_BAD_REQUEST, "No tasks provided")
    ELSE SuggestionsResponse(get_top_suggestions(ts, DataStrategy(req, strat),
                                                 DefaultLimit, clk))

(***************************************************************************)
(* Inputs.                                                                 *)
(***************************************************************************)
Today0 == 100

\* dependency lists: ids of 1..MaxTasks, none twice, at most MaxDeps long;
\* in a batch of fewer than MaxTasks tasks the larger ids name no task
Injective(f) == \A a, b \in DOMAIN f : a # b => f[a] # f[b]

DepLists ==
    UNION {{f \in [1..n -> 1..MaxTasks] : Injective(f)} : n \in 0..MaxDeps}

Task(i, title, due_date, estimated_hours, importance, dependencies) ==
    [id |-> i, title |-> title, due_date |-> due_date,
     estimated_hours |-> estimated_hours, importance |-> importance,
     dependencies |-> dependencies]

\* a well-formed record: the i-th task of a batch, due tomorrow
WellFormed(i, dependencies) ==
    Task(Id(i), Str(TitleNames[i]), Iso(Today0 + 1), Num(100), Num(5),
         dependencies)

\* the field values of the i-th task of an analysed batch: well-formed
\* ones, and ones with a single field absent, None or ill-typed
Profiles ==
    {[title |-> "ok", due_date |-> d, estimated_hours |-> h,
      importance |-> Num(5)] :
         d \in {Iso(Today0 + 1), Iso(Today0 - 2)}, h \in {Num(100), Num(300)}}
    \cup {[title |-> "ok", due_date |-> d, estimated_hours |-> Num(300),
           importance |-> Num(5)] : d \in {Absent, Null, BadStr}}
    \cup {[title |-> "ok", due_date |-> Iso(Today0 + 1), estimated_hours |-> h,
           importance |-> Num(5)] : h \in {Absent, Null, BadStr}}
    \cup {[title |-> "ok", due_date |-> Iso(Today0 + 1),
           estimated_hours |-> Num(100), importance |-> m] :
              m \in {Absent, Null, BadStr}}
    \cup {[title |-> t, due_date |-> Iso(Today0 + 1),
           estimated_hours |-> Num(100), importance |-> Num(5)] :
              t \in {"absent", "null"}}

ProfileTask(i, p) ==
    Task(Id(i),
         IF p.title = "ok" THEN Str(TitleNames[i])
         ELSE IF p.title = "null" THEN NullTitle ELSE NoTitle,
         p.due_date, p.estimated_hours, p.importance, <<>>)

NoResult == [exc |-> NoExc]

InitCommon ==
    /\ target = 0
    /\ config = EmptyConfig
    /\ today = Today0
    /\ midnight = 0
    /\ limit = DefaultLimit
    /\ request = NoRequest
    /\ pc = "ready"
    /\ result = NoResult

\* batches of well-formed tasks over every dependency graph
InitGraph ==
    /\ \E n \in 1..MaxTasks : \E deps \in [1..n -> DepLists] :
           tasks = [i \in 1..n |-> WellFormed(i, deps[i])]
    /\ strategy = "smart_balance"
    /\ user_preferences = NoPreferences
    /\ InitCommon

\* batches without dependencies over every profile
Init ==
    /\ \E n \in 0..MaxTasks : \E ps \in [1..n -> Profiles] :
           tasks = [i \in 1..n |-> ProfileTask(i, ps[i])]
    /\ strategy \in {"smart_balance", "deadline_driven"}
    /\ user_preferences \in
           [available_hours : {Absent, Num(500)}, energy_level : {"absent"}]
    /\ InitCommon

\* one task, every combination of field values
InitScore ==
    /\ \E i \in {NoId, Id(1)},
          t \in {NoTitle, NullTitle, Str(TitleNames[1])},
          d \in {Absent, Null, BadStr, Iso(Today0 - 1), Iso(Today0),
                 Iso(Today0 + 5)},
          h \in {Absent, Null, BadStr, Num(0), Num(100), Num(600)},
          m \in {Absent, Null, BadStr, Num(5), Num(15)} :
           tasks = <<Task(i, t, d, h, m, <<>>)>>
    /\ strategy \in Strategies \cup {"custom"}
    /\ user_preferences = NoPreferences
    /\ config = EmptyConfig
    /\ today = Today0
    /\ midnight = 0
    /\ limit = DefaultLimit
    /\ request = NoRequest
    /\ pc = "ready"
    /\ result = NoResult
    /\ target = 1

\* the tasks a task leads to by following dependencies from x
RECURSIVE Orbit(_, _, _)
Orbit(f, x, seen) ==
    IF x \in seen THEN seen ELSE Orbit(f, f[x], seen \cup {x})

\* batches that are one ring: the i-th task depends on task f[i] alone,
\* and f runs through all tasks of the batch before it returns
InitRing ==
    /\ \E n \in 2..MaxRing : \E f \in [1..n -> 1..n] :
           /\ Orbit(f, 1, {}) = 1..n
           /\ Injective(f)
           /\ tasks = [i \in 1..n |-> WellFormed(i, <<f[i]>>)]
    /\ strategy = "smart_balance"
    /\ user_preferences = NoPreferences
    /\ InitCommon

\* the number of dependency entries of the first n lists
RECURSIVE EdgeCount(_, _)
EdgeCount(deps, n) ==
    IF n = 0 THEN 0 ELSE Len(deps[n]) + EdgeCount(deps, n - 1)

\* batches of well-formed tasks over every dependency graph of at most
\* MaxEdges dependency entries
InitDetect ==
    /\ \E n \in 1..MaxTasks : \E deps \in [1..n -> DepLists] :
           /\ EdgeCount(deps, n) <= MaxEdges
           /\ tasks = [i \in 1..n |-> WellFormed(i, deps[i])]
    /\ strategy = "smart_balance"
    /\ user_preferences = NoPreferences
    /\ InitCommon

\* a task of a batch of well-formed tasks over every dependency graph
InitBoost ==
    /\ \E n \in 1..MaxTasks : \E deps \in [1..n -> DepLists] :
           /\ EdgeCount(deps, n) <= MaxEdges
           /\ tasks = [i \in 1..n |-> WellFormed(i, deps[i])]
           /\ target \in 1..n
    /\ strategy = "smart_balance"
    /\ user_preferences = NoPreferences
    /\ config = EmptyConfig
    /\ today = Today0
    /\ midnight = 0
    /\ limit = DefaultLimit
    /\ request = NoRequest
    /\ pc = "ready"
    /\ result = NoResult

\* one task with a due date from MaxOverdueDays days ago to MaxDaysAhead
\* days ahead, or no parseable date: None, a string that is no date, a
\* number
InitUrgency ==
    /\ \E d \in {Iso(Today0 + k) : k \in (0 - MaxOverdueDays)..MaxDaysAhead}
                 \cup {Null, BadStr, Num(5)} :
           tasks = <<Task(Id(1), Str(TitleNames[1]), d, Num(100), Num(5),
                          <<>>)>>
    /\ strategy \in {"smart_balance", "deadline_driven"}
    /\ user_preferences = NoPreferences
    /\ config = EmptyConfig
    /\ today = Today0
    /\ midnight = 0
    /\ limit = DefaultLimit
    /\ request = NoRequest
    /\ pc = "ready"
    /\ result = NoResult
    /\ target = 1

\* the durations of the effort score: every quarter of an hour up to
\* MaxQuarterHours quarters
PositiveHours == {25 * k : k \in 1..MaxQuarterHours}

EnergyLevels == {"low", "medium", "high", "unknown"}

\* one task with a positive duration, a duration of zero, a negative one,
\* a negative int beyond the floats, None or a string that is no number;
\* every strategy and energy level
InitEffort ==
    /\ \E h \in {Num(x) : x \in PositiveHours}
                 \cup {Num(0), Num(-100), NegativeBigInt, Null, BadStr} :
           tasks = <<Task(Id(1), Str(TitleNames[1]), Iso(Today0 + 1), h,
                          Num(5), <<>>)>>
    /\ strategy \in Strategies \cup {"custom"}
    /\ user_preferences \in
           [available_hours : {Absent}, energy_level : EnergyLevels]
    /\ config = EmptyConfig
    /\ today = Today0
    /\ midnight = 0
    /\ limit = DefaultLimit
    /\ request = NoRequest
    /\ pc = "ready"
    /\ result = NoResult
    /\ target = 1

\* the weights of an override: negative, zero, above 1
WeightValues == {-100, 0, 300}

\* a task that depends on the first task of the batch
Dependent(i) ==
    Task(Id(i), Str(TitleNames[2]), Iso(Today0 + 1), Num(100), Num(5),
         <<1>>)

\* a task with all required fields and up to MaxDependents dependents,
\* scored with the default weights or with an override of its strategy
InitWeights ==
    /\ \E n \in 0..MaxDependents,
          d \in {Iso(Today0 - 6), Iso(Today0), Iso(Today0 + 40)},
          h \in {Num(25), Num(600)},
          m \in {Num(1), Num(10)} :
           tasks = [i \in 1..(n + 1) |->
                       IF i = 1
                       THEN Task(Id(1), Str(TitleNames[1]), d, h, m, <<>>)
                       ELSE Dependent(i)]
    /\ strategy \in Strategies
    /\ \E w \in {NoWeights}
                 \cup {W(u, i, e, d) : u \in WeightValues, i \in WeightValues,
                                        e \in WeightValues, d \in WeightValues} :
           config = [s \in Strategies |-> IF s = strategy THEN w ELSE NoWeights]
    /\ user_preferences = NoPreferences
    /\ today = Today0
    /\ midnight = 0
    /\ limit = DefaultLimit
    /\ request = NoRequest
    /\ pc = "ready"
    /\ result = NoResult
    /\ target = 1

\* a task whose importance runs from -MaxNegativeImportance to
\* MaxImportance, with up to two dependents, scored with the default weights
InitImportance ==
    /\ \E n \in 0..2,
          d \in {Iso(Today0 - 3), Iso(Today0 + 1), Iso(Today0 + 40)},
          h \in {Num(100), Num(1000)},
          m \in (0 - MaxNegativeImportance)..MaxImportance :
           tasks = [i \in 1..(n + 1) |->
                       IF i = 1
                       THEN Task(Id(1), Str(TitleNames[1]), d, h, Num(m),
                                 <<>>)
                       ELSE Dependent(i)]
    /\ strategy \in Strategies
    /\ config = EmptyConfig
    /\ user_preferences = NoPreferences
    /\ today = Today0
    /\ midnight = 0
    /\ limit = DefaultLimit
    /\ request = NoRequest
    /\ pc = "ready"
    /\ result = NoResult
    /\ target = 1

\* batches without dependencies over every profile, and a limit
InitSuggest ==
    /\ \E n \in 0..MaxTasks : \E ps \in [1..n -> Profiles] :
           tasks = [i \in 1..n |-> ProfileTask(i, ps[i])]
    /\ strategy \in {"smart_balance", "deadline_driven"}
    /\ limit \in 0..MaxLimit
    /\ request = NoRequest
    /\ user_preferences = NoPreferences
    /\ target = 0
    /\ config = EmptyConfig
    /\ today = Today0
    /\ midnight = 0
    /\ pc = "ready"
    /\ result = NoResult

\* the durations of the budget batches, in 1/100 hour: none, a quarter of an
\* hour, one hour, three hours
BudgetHours == {0, 25, 100, 300}

\* batches of well-formed tasks of these durations, with no hours available,
\* a quarter of an hour, five hours or the default
InitBudget ==
    /\ \E n \in 1..MaxTasks : \E hs \in [1..n -> BudgetHours] :
          tasks = [i \in 1..n |->
                      Task(Id(i), Str(TitleNames[i]), Iso(Today0 + 1),
                           Num(hs[i]), Num(5), <<>>)]
    /\ strategy = "smart_balance"
    /\ user_preferences \in
           [available_hours : {Absent, Num(0), Num(25), Num(500)},
            energy_level : {"absent"}]
    /\ InitCommon

\* the tasks of a posted batch: durations of one or three hours, importance
\* a number or a word
PostedProfiles ==
    {[title |-> "ok", due_date |-> Iso(Today0 + 1), estimated_hours |-> h,
      importance |-> m] : h \in {Num(100), Num(300)}, m \in {Num(5), BadStr}}

\* posted payloads: without a tasks field, with tasks null, or with a list
\* of 0..MaxTasks tasks; with or without a strategy
InitRequest ==
    /\ request \in [tasks : {"absent", "null", "list"},
                     strategy : {"absent", "given"}]
    /\ IF request.tasks = "list"
       THEN \E n \in 0..MaxTasks : \E ps \in [1..n -> PostedProfiles] :
               tasks = [i \in 1..n |-> ProfileTask(i, ps[i])]
       ELSE tasks = <<>>
    /\ strategy \in {"smart_balance", "fast_wins"}
    /\ user_preferences = NoPreferences
    /\ target = 0
    /\ config = EmptyConfig
    /\ today = Today0
    /\ midnight = 0
    /\ limit = DefaultLimit
    /\ pc = "ready"
    /\ result = NoResult

\* batches of tasks due yesterday, today or tomorrow, analysed while the
\* calendar day may change: midnight = k > 0 says that the k-th reading of
\* date.today() of the call is the first one of the next day
InitMidnight ==
    /\ \E n \in 1..MaxTasks :
          \E ds \in [1..n -> {Today0 - 1, Today0, Today0 + 1}] :
             /\ tasks = [i \in 1..n |->
                            Task(Id(i), Str(TitleNames[i]), Iso(ds[i]),
                                 Num(100), Num(5), <<>>)]
             /\ midnight \in 0..(n + 1)
    /\ strategy \in {"smart_balance", "deadline_driven"}
    /\ user_preferences = NoPreferences
    /\ target = 0
    /\ config = EmptyConfig
    /\ today = Today0
    /\ limit = DefaultLimit
    /\ request = NoRequest
    /\ pc = "ready"
    /\ result = NoResult

(***************************************************************************)
(* Operations: each is one call of a function of scoring.py.               *)
(***************************************************************************)
Inputs ==
    <<tasks, target, strategy, config, user_preferences, today, midnight,
      limit, request>>

DetectCircularDependencies ==
    /\ pc = "ready"
    /\ result' = detect_circular_dependencies(tasks)
    /\ pc' = "detected"
    /\ UNCHANGED Inputs

ScoreTask ==
    /\ pc = "ready"
    /\ target \in 1..Len(tasks)
    /\ result' = score_task(tasks[target], strategy, config, tasks,
                            user_preferences, today)
    /\ pc' = "scored"
    /\ UNCHANGED Inputs

AnalyzeTasks ==
    /\ pc = "ready"
    /\ result' = analyze_tasks(tasks, strategy, config, user_preferences,
                               [t |-> today, m |-> midnight])
    /\ pc' = "analyzed"
    /\ tasks' = InputBatchAfter(tasks, result'.analyzed_tasks)
    /\ UNCHANGED <<target, strategy, config, user_preferences, today,
                   midnight, limit, request>>

CalculateDependencyBoost ==
    /\ pc = "ready"
    /\ target \in 1..Len(tasks)
    /\ result' = [exc |-> NoExc,
                  boost |-> calculate_dependency_boost(tasks[target], tasks)]
    /\ pc' = "boosted"
    /\ UNCHANGED Inputs

\* called as score_task calls it: crisis_mode = strategy == "deadline_driven"
CalculateUrgencyScore ==
    /\ pc = "ready"
    /\ target \in 1..Len(tasks)
    /\ result' = calculate_urgency_score(tasks[target].due_date,
                                         strategy = "deadline_driven", today)
    /\ pc' = "urgency"
    /\ UNCHANGED Inputs

\* called as score_task calls it, with the energy level of the preferences
CalculateEffortScore ==
    /\ pc = "ready"
    /\ target \in 1..Len(tasks)
    /\ result' = calculate_effort_score(tasks[target].estimated_hours,
                                        strategy,
                                        EnergyLevel(user_preferences))
    /\ pc' = "effort"
    /\ UNCHANGED Inputs

GetTopSuggestions ==
    /\ pc = "ready"
    /\ result' = get_top_suggestions(tasks, strategy, limit,
                                     [t |-> today, m |-> midnight])
    /\ pc' = "suggested"
    /\ tasks' = InputBatchAfter(tasks,
                    analyze_tasks(tasks, strategy, EmptyConfig, NoPreferences,
                                  [t |-> today, m |-> midnight]).analyzed_tasks)
    /\ UNCHANGED <<target, strategy, config, user_preferences, today,
                   midnight, limit, request>>

\* POST /api/tasks/analyze/
PostAnalyze ==
    /\ pc = "ready"
    /\ \E reread \in BodyRereads :
          result' = AnalyzeTasksView_post(request, tasks, strategy, config,
                                          user_preferences, reread,
                                          [t |-> today, m |-> midnight])
    /\ pc' = "responded"
    /\ UNCHANGED Inputs

\* POST /api/tasks/suggest/
PostSuggest ==
    /\ pc = "ready"
    /\ \E reread \in BodyRereads :
          result' = SuggestTasksView_post(request, tasks, strategy, reread,
                                          [t |-> today, m |-> midnight])
    /\ pc' = "responded"
    /\ UNCHANGED Inputs

Next == AnalyzeTasks

NextGraph == DetectCircularDependencies \/ AnalyzeTasks

NextScore == ScoreTask

Spec == Init /\ [][Next]_vars

SpecGraph == InitGraph /\ [][NextGraph]_vars

SpecScore == InitScore /\ [][NextScore]_vars

NextRing == DetectCircularDependencies

SpecRing == InitRing /\ [][NextRing]_vars

NextDetect == DetectCircularDependencies

SpecDetect == InitDetect /\ [][NextDetect]_vars

NextBoost == CalculateDependencyBoost

SpecBoost == InitBoost /\ [][NextBoost]_vars

NextUrgency == CalculateUrgencyScore

SpecUrgency == InitUrgency /\ [][NextUrgency]_vars

NextEffort == CalculateEffortScore

SpecEffort == InitEffort /\ [][NextEffort]_vars

SpecWeights == InitWeights /\ [][NextScore]_vars

SpecImportance == InitImportance /\ [][NextScore]_vars

NextSuggest == GetTopSuggestions

SpecSuggest == InitSuggest /\ [][NextSuggest]_vars

NextEngine == AnalyzeTasks \/ GetTopSuggestions

SpecEngine == Init /\ [][NextEngine]_vars

SpecMidnight == InitMidnight /\ [][Next]_vars

SpecBudget == InitBudget /\ [][Next]_vars

NextRequest == PostAnalyze \/ PostSuggest

SpecRequest == InitRequest /\ [][NextRequest]_vars

(***************************************************************************)
(* Properties.                                                             *)
(***************************************************************************)
BatchIds(ts) == {ts[i].id.v : i \in 1..Len(ts)}

\* edge u -> v: u lists v as a dependency and v is a task of the batch
Successors(ts, u) ==
    UNION {Range(ts[i].dependencies) \cap BatchIds(ts) :
              i \in {j \in 1..Len(ts) : ts[j].id.v = u}}

RECURSIVE ReachableFrom(_, _)
ReachableFrom(ts, S) ==
    LET T == S \cup UNION {Successors(ts, u) : u \in S}
    IN  IF T = S THEN S ELSE ReachableFrom(ts, T)

OnCycle(ts, u) == u \in ReachableFrom(ts, Successors(ts, u))

CycleTitles(ts) ==
    {ts[i].title : i \in {j \in 1..Len(ts) : OnCycle(ts, ts[j].id.v)}}

AllTitles(ts) == {ts[i].title : i \in 1..Len(ts)}

\* C1: detect_circular_dependencies returns exactly the titles of the tasks
\* that lie on at least one dependency cycle: none missing, none extra.
C1_ExactlyTheCycleMembers ==
    (pc = "detected" /\ result.exc = NoExc)
        => Range(result.titles) = CycleTitles(tasks)

\* C2: on well-formed task records, whatever the dependency graph,
\* detect_circular_dependencies and analyze_tasks return and never raise.
C2_NeverRaisesOnAnyGraph ==
    pc \in {"detected", "analyzed"} => result.exc = NoExc

RequiredSet == {required_fields[i] : i \in 1..Len(required_fields)}

MissingSet(task) ==
    {f \in RequiredSet : task[f].k \in {"absent", "null"}}

\* all four required fields hold a value of the expected type
Regular(task) ==
    /\ task.title.k = "str"
    /\ task.due_date.k = "iso"
    /\ task.estimated_hours.k = "num"
    /\ task.importance.k = "num"

RowsOf(i) ==
    {j \in 1..Len(result.analyzed_tasks) : result.analyzed_tasks[j].pos = i}

\* C3: a task with a missing or null required field never aborts
\* analyze_tasks: it is returned as a row with score 0.0 and a reason naming
\* the missing fields, and every other task is still scored and returned.
C3_MissingFieldIsAZeroRow ==
    (/\ pc = "analyzed"
     /\ \A i \in 1..Len(tasks) : Regular(tasks[i]) \/ MissingSet(tasks[i]) # {})
        => /\ result.exc = NoExc
           /\ \A i \in 1..Len(tasks) :
                 /\ Cardinality(RowsOf(i)) = 1
                 /\ MissingSet(tasks[i]) # {} =>
                       \A j \in RowsOf(i) :
                          /\ result.analyzed_tasks[j].score = 0
                          /\ result.analyzed_tasks[j].reason.base
                                 = "Missing required fields"
                          /\ Range(result.analyzed_tasks[j].reason.details)
                                 = MissingSet(tasks[i])

\* the day the insights of the call are evaluated on
EvaluationDate == NowAt([t |-> today, m |-> midnight], Len(tasks) + 1)

PastDue(ts, day) ==
    {i \in 1..Len(ts) : ts[i].due_date.k = "iso" /\ ts[i].due_date.v < day}

\* C4: the overdue count is the number of tasks whose due date precedes the
\* evaluation date; a task with an unparseable due date counts as not
\* overdue and the analysis still completes.
C4_OverdueCountToleratesBadDates ==
    (/\ pc = "analyzed"
     /\ \A i \in 1..Len(tasks) :
           \/ Regular(tasks[i])
           \/ Regular([tasks[i] EXCEPT !.due_date = Iso(today)])
                 /\ tasks[i].due_date.k = "badstr")
        => /\ result.exc = NoExc
           /\ result.insights.overdue_tasks
                  = Cardinality(PastDue(tasks, EvaluationDate))

RowHours(row) == ToFloat(HoursOrZero(row.task)).v

RECURSIVE SumHours(_, _)
SumHours(rows, J) ==
    IF J = {} THEN 0
    ELSE LET j == CHOOSE x \in J : TRUE
         IN  RowHours(rows[j]) + SumHours(rows, J \ {j})

Marked(rows) == {j \in 1..Len(rows) : rows[j].can_complete_today = "yes"}

Budget == AvailableHours(user_preferences)

\* C5 as stated: a row is marked can_complete_today exactly when the total
\* duration of all rows ranked at or before it is within the available
\* hours, so the marked rows are a prefix of the ranking.
C5_MarkedIffCumulativeOfAllFits ==
    (pc = "analyzed" /\ result.exc = NoExc)
        => \A j \in 1..Len(result.analyzed_tasks) :
              (j \in Marked(result.analyzed_tasks))
                  <=> (SumHours(result.analyzed_tasks, 1..j) <= Budget)

\* C5 amended: a row is marked can_complete_today exactly when the total
\* duration of the marked rows ranked before it plus its own duration is
\* within the available hours; rows behind an unmarked row can be marked.
C5_MarkedIffFitsWithMarkedBefore ==
    (pc = "analyzed" /\ result.exc = NoExc)
        => /\ \A j \in 1..Len(result.analyzed_tasks) :
                 /\ result.analyzed_tasks[j].can_complete_today
                        \in {"yes", "no"}
                 /\ (j \in Marked(result.analyzed_tasks))
                       <=> (SumHours(result.analyzed_tasks,
                                     Marked(result.analyzed_tasks)
                                         \cap 1..(j - 1))
                               + RowHours(result.analyzed_tasks[j]) <= Budget)

\* a marked row ranked behind an unmarked one
C5_Witness ==
    /\ pc = "analyzed"
    /\ result.exc = NoExc
    /\ \E a, b \in 1..Len(result.analyzed_tasks) :
          /\ a < b
          /\ a \notin Marked(result.analyzed_tasks)
          /\ b \in Marked(result.analyzed_tasks)

\* C6: analyzed_tasks is ordered by score descending, and rows of equal
\* score keep the relative order of the input batch.
C6_SortedDescendingAndStable ==
    (pc = "analyzed" /\ result.exc = NoExc)
        => \A a, b \in 1..Len(result.analyzed_tasks) :
              a < b =>
                 /\ result.analyzed_tasks[a].score
                        >= result.analyzed_tasks[b].score
                 /\ result.analyzed_tasks[a].score
                        = result.analyzed_tasks[b].score
                       => result.analyzed_tasks[a].pos
                              < result.analyzed_tasks[b].pos

\* a result with two rows of equal score, and a row the sort moved ahead of
\* an earlier task of the batch
C6_Witness ==
    /\ pc = "analyzed"
    /\ result.exc = NoExc
    /\ \E a, b \in 1..Len(result.analyzed_tasks) :
          /\ a < b
          /\ result.analyzed_tasks[a].score = result.analyzed_tasks[b].score
          /\ result.analyzed_tasks[a].score > 0
    /\ \E a, b \in 1..Len(result.analyzed_tasks) :
          /\ a < b
          /\ result.analyzed_tasks[a].pos > result.analyzed_tasks[b].pos

\* scoring the task raises inside the try block of the loop
ScoringRaises(i) ==
    \/ score_task(tasks[i], strategy, config, tasks, user_preferences,
                  NowAt([t |-> today, m |-> midnight], i)).exc # NoExc
    \/ ToFloat(HoursOrZero(tasks[i])).exc # NoExc

ErrorWarningsFor(i) ==
    {w \in 1..Len(result.warnings) :
        /\ result.warnings[w].kind = "error"
        /\ result.warnings[w].titles = <<TitleOrUnknown(tasks[i])>>}

\* C7: if scoring one task raises, analyze_tasks adds a warning naming that
\* task, leaves it out of analyzed_tasks and still scores, ranks and returns
\* every other task: one task's failure never aborts the batch.
C7_ScoringFailureIsIsolated ==
    (pc = "analyzed" /\ \E i \in 1..Len(tasks) : ScoringRaises(i))
        => /\ result.exc = NoExc
           /\ Cardinality({w \in 1..Len(result.warnings) :
                              result.warnings[w].kind = "error"})
                  = Cardinality({i \in 1..Len(tasks) : ScoringRaises(i)})
           /\ \A i \in 1..Len(tasks) :
                 IF ScoringRaises(i)
                 THEN RowsOf(i) = {} /\ ErrorWarningsFor(i) # {}
                 ELSE Cardinality(RowsOf(i)) = 1

\* C8: score_task on a task with any of title, due_date, estimated_hours,
\* importance absent or null returns score 0.0 and a reason listing exactly
\* the missing field names, without raising, also for a task without id.
C8_MissingFieldsScoreZero ==
    (pc = "scored" /\ MissingSet(tasks[target]) # {})
        => /\ result.exc = NoExc
           /\ result.score = 0
           /\ result.reason.base = "Missing required fields"
           /\ Range(result.reason.details) = MissingSet(tasks[target])
           /\ Len(result.reason.details)
                  = Cardinality(MissingSet(tasks[target]))

\* a task without id whose only missing field is a null one
C8_Witness ==
    /\ pc = "scored"
    /\ tasks[target].id.k = "absent"
    /\ MissingSet(tasks[target]) = {"importance"}
    /\ tasks[target].importance.k = "null"
    /\ result.score = 0
    /\ result.reason.details = <<"importance">>

SelfDependent(ts) ==
    {i \in 1..Len(ts) : ts[i].id.v \in Range(ts[i].dependencies)}

\* C9: a task that lists its own id as a dependency is detected as a 1-node
\* cycle whatever else the batch holds: its title is in the returned list,
\* and is the whole list when it is the only cycle.
C9_SelfDependencyDetected ==
    (pc = "detected" /\ SelfDependent(tasks) # {})
        => /\ result.exc = NoExc
           /\ \A i \in SelfDependent(tasks) :
                 tasks[i].title \in Range(result.titles)
           /\ \A i \in SelfDependent(tasks) :
                 CycleTitles(tasks) = {tasks[i].title}
                     => result.titles = <<tasks[i].title>>

\* one simple ring: every task has exactly one dependency, a task of the
\* batch, and following the dependencies from the first task passes every
\* task before it comes back
RECURSIVE RingOrbit(_, _, _)
RingOrbit(ts, u, seen) ==
    IF u \in seen THEN seen
    ELSE RingOrbit(ts, ts[TaskMapGet(ts, u)].dependencies[1], seen \cup {u})

IsRing(ts) ==
    /\ Len(ts) >= 2
    /\ \A i \in 1..Len(ts) :
          /\ Len(ts[i].dependencies) = 1
          /\ ts[i].dependencies[1] \in BatchIds(ts)
    /\ Cardinality(BatchIds(ts)) = Len(ts)
    /\ RingOrbit(ts, ts[1].id.v, {}) = BatchIds(ts)

\* C10: for a batch that is one simple ring of k >= 2 tasks,
\* detect_circular_dependencies returns exactly the k titles of the ring,
\* each once.
C10_RingReturnsAllTitlesOnce ==
    (pc = "detected" /\ IsRing(tasks))
        => /\ result.exc = NoExc
           /\ Range(result.titles) = AllTitles(tasks)
           /\ Len(result.titles) = Len(tasks)

\* a ring of at least three tasks that does not follow the batch order
C10_Witness ==
    /\ pc = "detected"
    /\ IsRing(tasks)
    /\ Len(tasks) >= 3
    /\ tasks[1].dependencies # <<2>>
    /\ Len(result.titles) = Len(tasks)

Acyclic(ts) == \A u \in BatchIds(ts) : ~OnCycle(ts, u)

\* C11: for a batch whose dependency graph has no cycle (the chain
\* 3 -> 2 -> 1), detect_circular_dependencies returns the empty list; and
\* whatever the graph, every title it returns is the title of a task that
\* lies on a cycle.
C11_NoFalsePositives ==
    pc = "detected"
        => /\ Acyclic(tasks) => (result.exc = NoExc /\ result.titles = <<>>)
           /\ result.exc = NoExc
                  => Range(result.titles) \subseteq CycleTitles(tasks)

\* the chain 3 -> 2 -> 1 is found free of cycles, and a batch with a cycle
\* and a task that only leads to it is possible too
C11_Witness ==
    /\ pc = "detected"
    /\ Len(tasks) = 3
    /\ tasks[3].dependencies = <<2>>
    /\ tasks[2].dependencies = <<1>>
    /\ tasks[1].dependencies = <<>>
    /\ result.exc = NoExc
    /\ result.titles = <<>>

\* the dependency ids of the batch that are the id of none of its tasks
MissingIds(ts) ==
    UNION {Range(ts[i].dependencies) : i \in 1..Len(ts)} \ BatchIds(ts)

\* the same batch with these ids removed from the dependency lists
WithoutMissingIds(ts) ==
    [i \in 1..Len(ts) |->
        [ts[i] EXCEPT !.dependencies =
            SelectSeq(@, LAMBDA d : d \in BatchIds(ts))]]

\* C12: a dependency id that is the id of no task of the batch is ignored
\* by detect_circular_dependencies: it causes no error and no edge, the
\* outcome is the outcome for the same batch with the id removed from the
\* dependency lists.
C12_MissingDependencyIgnored ==
    (pc = "detected" /\ MissingIds(tasks) # {})
        => result = detect_circular_dependencies(WithoutMissingIds(tasks))

\* a cycle found through a list that names a missing task before the
\* dependency that closes the cycle
C12_Witness ==
    /\ pc = "detected"
    /\ Len(tasks) = 2
    /\ tasks[1].dependencies = <<3, 2>>
    /\ tasks[2].dependencies = <<1, 3>>
    /\ result.exc = NoExc
    /\ Len(result.titles) = 2

\* the tasks of the batch other than the one at position i that list its id
OtherDependents(ts, i) ==
    {j \in 1..Len(ts) : j # i /\ ts[i].id.v \in Range(ts[j].dependencies)}

\* C13: calculate_dependency_boost(task, batch) is 2.0 times the number of
\* other tasks of the batch whose dependency list contains the task's id;
\* the task's own reference to itself does not count.
C13_BoostCountsOtherTasksOnly ==
    pc = "boosted"
        => result.boost = 20000 * Cardinality(OtherDependents(tasks, target))

DueDate == tasks[target].due_date

DaysUntilDue == DueDate.v - today

CrisisMode == strategy = "deadline_driven"

\* the crisis multiplier in tenths
Multiplier == IF CrisisMode THEN 15 ELSE 10

\* the step table: days from lo to hi score max x pct / 100 x multiplier
StepTable ==
    {[lo |-> 0, hi |-> 0, pct |-> 100, label |-> "Due Today"],
     [lo |-> 1, hi |-> 1, pct |-> 95, label |-> "Due Tomorrow"],
     [lo |-> 2, hi |-> 3, pct |-> 85, label |-> "Due in 2-3 days"],
     [lo |-> 4, hi |-> 7, pct |-> 65, label |-> "Due this week"],
     [lo |-> 8, hi |-> 14, pct |-> 45, label |-> "Due in 2 weeks"],
     [lo |-> 15, hi |-> 30, pct |-> 25, label |-> "Due this month"]}

\* C14: for a parseable due date, calculate_urgency_score returns the score
\* and label of the step table keyed on the days until due, times 1.5 in
\* crisis mode in every bucket but the one beyond 30 days, which scores
\* max x 0.1; a task due today outside crisis mode scores exactly 10.0.
C14_UrgencyStepTable ==
    (pc = "urgency" /\ DueDate.k = "iso" /\ DaysUntilDue >= 0)
        => /\ \A row \in StepTable :
                 DaysUntilDue \in row.lo..row.hi
                     => /\ result.score * 1000 = MaxScore * row.pct * Multiplier
                        /\ result.label = row.label
           /\ DaysUntilDue > 30
                 => result = [score |-> 10000, label |-> "Future task"]
           /\ (DaysUntilDue = 0 /\ ~CrisisMode) => result.score = 100000

\* a task due in five days in crisis mode: 10 x 0.65 x 1.5 = 9.75
C14_Witness ==
    /\ pc = "urgency"
    /\ DaysUntilDue = 5
    /\ CrisisMode
    /\ result = [score |-> 97500, label |-> "Due this week"]

\* the urgency score of the task had it been due one day later
ScoreDueOneDayLater ==
    calculate_urgency_score(Iso(DueDate.v + 1), CrisisMode, today).score

BelowCap == result.score * 10 < OverdueCap * Multiplier

\* C15 as stated: the urgency score of an overdue task strictly increases
\* with every further overdue day.
C15_OverdueStrictlyIncreasing ==
    (pc = "urgency" /\ DueDate.k = "iso" /\ DaysUntilDue < -1)
        => result.score > ScoreDueOneDayLater

\* C15: the urgency score of an overdue task never decreases with the number
\* of overdue days and strictly increases as long as it is below the cap;
\* its value before the crisis multiplier never exceeds 15.0; and it is
\* above the 10.0 of a task due today.
C15_OverdueIncreasingUpToCap ==
    (pc = "urgency" /\ DueDate.k = "iso" /\ DaysUntilDue < 0)
        => /\ result.label = "OVERDUE"
           /\ result.score >= ScoreDueOneDayLater
           /\ BelowCap => result.score > ScoreDueOneDayLater
           /\ result.score * 10 <= OverdueCap * Multiplier
           /\ result.score > 100000
           /\ result.score > (MaxScore * Multiplier) \div 10

\* eleven days overdue outside crisis mode: the cap is reached, the score
\* is the one of ten days overdue
C15_Witness ==
    /\ pc = "urgency"
    /\ DaysUntilDue = -11
    /\ ~CrisisMode
    /\ result.score = 150000
    /\ ScoreDueOneDayLater = 150000

\* C16: for a due date that cannot be parsed or is missing (a string that is
\* no date, None, a value that is no string) calculate_urgency_score
\* returns 1.0 with the label "No deadline", in crisis mode as well.
C16_NoDeadlineFallback ==
    (pc = "urgency" /\ DueDate.k # "iso")
        => result = [score |-> 10000, label |-> "No deadline"]

\* the due date None in crisis mode
C16_Witness ==
    /\ pc = "urgency"
    /\ DueDate.k = "null"
    /\ CrisisMode
    /\ result.label = "No deadline"

Hours == tasks[target].estimated_hours

Energy == EnergyLevel(user_preferences)

PositiveDuration == Hours.k = "num" /\ Hours.v > 0

C18_EnergyNotApplied ==
    (pc = "effort" /\ strategy \in {"high_impact", "deadline_driven"})
        => \A e \in EnergyLevels :
              calculate_effort_score(Hours, strategy, e) = result

\* one hour under high_impact at high energy scores 5.8, and the same hour
\* under fast_wins scores 9.0 x 1.3
C18_Witness ==
    /\ pc = "effort"
    /\ strategy = "high_impact"
    /\ Energy = "high"
    /\ Hours = Num(100)
    /\ result.score = 58000
    /\ calculate_effort_score(Hours, "fast_wins", Energy).score = 117000

\* C19: under high_impact calculate_effort_score returns the same result
\* for tasks of different positive durations (1.0 h and 10.0 h).
C19_HighImpactIgnoresDuration ==
    (pc = "effort" /\ strategy = "high_impact" /\ PositiveDuration)
        => \A h \in PositiveHours :
              calculate_effort_score(Num(h), strategy, Energy) = result

NonPositive == (Hours.k = "num" /\ Hours.v <= 0) \/ Hours.k = "bigint"

NonNumeric == Hours.k \notin {"num", "bigint"}

\* C20: for a non-positive or non-numeric duration, whatever the strategy
\* and the energy level, calculate_effort_score does not raise: it returns
\* the score 1.0 with the label "Quick task".
C20_FallbackIsQuickTask ==
    (pc = "effort" /\ (NonPositive \/ NonNumeric))
        => /\ result.exc = NoExc
           /\ result.score = 10000
           /\ result.label = "Quick task"

\* C21: for a task with all required fields, every strategy, every weight
\* override (negative or above 1) and every number of dependents, the score
\* score_task returns lies in [0, 10].
C21_ScoreWithinZeroAndTen ==
    (pc = "scored" /\ MissingFields(tasks[target]) = <<>>
                   /\ result.exc = NoExc)
        => /\ result.score >= 0
           /\ result.score <= 1000

\* an overdue task in crisis mode with MaxDependents dependents and every
\* weight at 3.0: the raw sum is far above 10, the score is 10.0
C21_Witness ==
    /\ pc = "scored"
    /\ strategy = "deadline_driven"
    /\ tasks[target].due_date = Iso(Today0 - 6)
    /\ Len(tasks) = MaxDependents + 1
    /\ config[strategy] = W(300, 300, 300, 300)
    /\ result.metadata.urgency_score = 2250
    /\ result.metadata.dependency_boost = 200 * MaxDependents
    /\ result.score = 1000

Importance == tasks[target].importance.v

\* the task scored, with the importance m in place of its own
WithImportance(m) == [tasks[target] EXCEPT !.importance = Num(m)]

ScoreWithImportance(m) ==
    score_task(WithImportance(m), strategy, config, tasks, user_preferences,
               today).score

\* the raw sum of high_impact with its default weights, in 1/1000000, for
\* the importance m
HighImpactRaw(m) ==
    calculate_urgency_score(tasks[target].due_date, FALSE, today).score * 15
      + m * 10000 * 55
      + calculate_effort_score(tasks[target].estimated_hours, "high_impact",
                               "medium").score * 10
      + calculate_dependency_boost(tasks[target], tasks) * 20

HighImpactDefault ==
    /\ pc = "scored"
    /\ strategy = "high_impact"
    /\ config = EmptyConfig
    /\ tasks[target].importance.k = "num"
    /\ result.exc = NoExc

\* C22 as stated: under high_impact with default weights, of two tasks that
\* differ in importance only the more important one never scores lower and
\* scores strictly higher whenever the raw sum stays below 10; an
\* importance outside 1..10 still yields a score > 0.
C22_HigherImportanceScoresHigher ==
    HighImpactDefault
        => /\ ScoreWithImportance(Importance + 1) >= result.score
           /\ HighImpactRaw(Importance + 1) < 10000000
                 => ScoreWithImportance(Importance + 1) > result.score
           /\ Importance \notin 1..10 => result.score > 0

\* C22: under high_impact with default weights, of two tasks that differ in
\* their (integer) importance only the more important one never scores
\* lower, and scores strictly higher whenever both raw sums lie within the
\* clamp range from 0 to 10; an importance above 10 is used as given and,
\* like every importance >= 0, yields a score > 0.
C22_HigherImportanceWithinClamp ==
    HighImpactDefault
        => /\ ScoreWithImportance(Importance + 1) >= result.score
           /\ (HighImpactRaw(Importance) >= 0
                   /\ HighImpactRaw(Importance + 1) <= 10000000)
                 => ScoreWithImportance(Importance + 1) > result.score
           /\ Importance >= 0 => result.score > 0
           /\ (Importance > 10 /\ HighImpactRaw(Importance) <= 10000000)
                 => result.score > ScoreWithImportance(10)

\* importance 15 on a task due in 40 days: 0.15 + 8.25 + 0.4 = 8.8, above
\* the 6.05 of importance 10
C22_Witness ==
    /\ HighImpactDefault
    /\ Importance = 15
    /\ Len(tasks) = 1
    /\ tasks[target].due_date = Iso(Today0 + 40)
    /\ tasks[target].estimated_hours = Num(1000)
    /\ result.score = 880
    /\ ScoreWithImportance(10) = 605

NoTasksWarning ==
    [kind |-> "No tasks provided for analysis", titles |-> <<>>,
     exc |-> NoExc]

\* C23: analyze_tasks on an empty batch returns, without raising, an empty
\* analyzed_tasks list, total_tasks 0, the one warning "No tasks provided
\* for analysis" and an empty insights record, whatever the strategy and
\* the preferences.
C23_EmptyBatchTrivialResult ==
    (pc = "analyzed" /\ tasks = <<>>)
        => /\ result.exc = NoExc
           /\ result.analyzed_tasks = <<>>
           /\ result.total_tasks = 0
           /\ result.warnings = <<NoTasksWarning>>
           /\ result.insights.k = "empty"

\* the empty batch under deadline_driven with five available hours
C23_Witness ==
    /\ pc = "analyzed"
    /\ tasks = <<>>
    /\ strategy = "deadline_driven"
    /\ user_preferences.available_hours = Num(500)
    /\ result.warnings = <<NoTasksWarning>>

\* the ranking of the batch under default preferences
DefaultRanking ==
    analyze_tasks(tasks, strategy, EmptyConfig, NoPreferences,
                  [t |-> today, m |-> midnight]).analyzed_tasks

\* C24: get_top_suggestions(batch, strategy, limit) with limit >= 0 returns
\* exactly the first min(limit, n) rows, in order, of the ranking of
\* analyze_tasks under default preferences, and total_evaluated is the
\* number of tasks of the batch.
C24_FirstRowsAndBatchSize ==
    (pc = "suggested" /\ result.exc = NoExc)
        => /\ Len(result.suggestions) = Min(limit, Len(DefaultRanking))
           /\ \A j \in 1..Len(result.suggestions) :
                 result.suggestions[j] = DefaultRanking[j]
           /\ result.total_evaluated = Len(tasks)

\* the estimated durations of the first n tasks of the batch, added up
RECURSIVE BatchHours(_, _)
BatchHours(ts, n) ==
    IF n = 0 THEN 0 ELSE HoursOrZero(ts[n]).v + BatchHours(ts, n - 1)

NumericHours(ts) == \A i \in 1..Len(ts) : HoursOrZero(ts[i]).k = "num"

\* C25: in the result of analyze_tasks insights.total_hours_needed is the
\* sum of the estimated durations of all tasks of the input batch and
\* total_tasks is the number of tasks supplied, also when a task fails to
\* score.
C25_TotalsCoverTheWholeBatch ==
    (pc = "analyzed" /\ result.exc = NoExc /\ tasks # <<>>
                     /\ NumericHours(tasks))
        => /\ result.insights.total_hours_needed
                  = RoundDiv(BatchHours(tasks, Len(tasks)), 10)
           /\ result.total_tasks = Len(tasks)

\* C26: analyze_tasks and get_top_suggestions never mutate their inputs:
\* when they return, every task record of the input batch, the weight
\* overrides and the preferences are what they were; can_complete_today is
\* written to the result rows only.
C26_InputsNotMutated ==
    [][ /\ tasks' = tasks
        /\ config' = config
        /\ user_preferences' = user_preferences ]_vars

\* an analysis whose rows carry the flag and still refer to the task
\* records of the batch as they were supplied
C26_Witness ==
    /\ pc = "analyzed"
    /\ Len(result.analyzed_tasks) = 2
    /\ result.analyzed_tasks[1].can_complete_today = "yes"
    /\ result.analyzed_tasks[2].can_complete_today = "no"
    /\ \A j \in 1..2 :
          result.analyzed_tasks[j].task = tasks[result.analyzed_tasks[j].pos]

\* the urgency and the overdue count of the result are those of the date d
EvaluatedAt(d) ==
    /\ \A j \in 1..Len(result.analyzed_tasks) :
          LET row == result.analyzed_tasks[j]
              u == calculate_urgency_score(row.task.due_date,
                                           strategy = "deadline_driven", d)
          IN  row.metadata.k = "full"
                  => /\ row.metadata.urgency_label = u.label
                     /\ row.metadata.urgency_score = RoundDiv(u.score, 100)
    /\ result.insights.overdue_tasks = Cardinality(PastDue(tasks, d))

\* C28: within one analyze_tasks call every date-dependent value (each
\* task's urgency score and label, the overdue count) is computed against
\* one and the same evaluation date, also when the calendar day changes
\* while the call runs.
C28_OneEvaluationDate ==
    (pc = "analyzed" /\ result.exc = NoExc)
        => \E d \in {today, today + 1} : EvaluatedAt(d)

\* a result of analyze_tasks for a batch of non-negative durations and
\* available hours >= 0
FeasibilityCase ==
    /\ pc = "analyzed"
    /\ result.exc = NoExc
    /\ result.insights.k = "full"
    /\ Budget >= 0
    /\ \A i \in 1..Len(tasks) :
          tasks[i].estimated_hours.k = "num" => tasks[i].estimated_hours.v >= 0

MarkedHours == SumHours(result.analyzed_tasks, Marked(result.analyzed_tasks))

\* the count of the marked rows, the budget as a ceiling of their durations,
\* and no mark on a row that does not fit in what the marked rows before it
\* leave
MarkedWithinBudget ==
    /\ result.insights.tasks_completable_today
           = Cardinality(Marked(result.analyzed_tasks))
    /\ MarkedHours <= Budget
    /\ \A j \in 1..Len(result.analyzed_tasks) :
          (SumHours(result.analyzed_tasks,
                    Marked(result.analyzed_tasks) \cap 1..(j - 1))
              + RowHours(result.analyzed_tasks[j]) > Budget)
             => j \notin Marked(result.analyzed_tasks)

\* C29 as stated: hours_completable_today equals the sum of the durations
\* of the rows marked can_complete_today, tasks_completable_today equals
\* their number, the sum never exceeds the available hours, and a task that
\* does not fit in what remains is left unmarked.
C29_HoursCompletableIsTheSum ==
    FeasibilityCase
        => /\ result.insights.hours_completable_today * 10 = MarkedHours
           /\ MarkedWithinBudget

\* C29 amended: hours_completable_today equals the sum of the durations of
\* the marked rows rounded to one decimal; tasks_completable_today equals
\* their number, the sum never exceeds the available hours, and a task that
\* does not fit in what remains is left unmarked.
C29_HoursCompletableIsTheRoundedSum ==
    FeasibilityCase
        => /\ result.insights.hours_completable_today
                  = RoundDiv(MarkedHours, 10)
           /\ MarkedWithinBudget

\* durations 3, 3, 3 with 5 available hours: only the first row is marked
C29_Witness ==
    /\ FeasibilityCase
    /\ Budget = 500
    /\ Len(result.analyzed_tasks) = 3
    /\ \A j \in 1..3 : RowHours(result.analyzed_tasks[j]) = 300
    /\ Marked(result.analyzed_tasks) = {1}
    /\ result.insights.hours_completable_today = 30

\* C30 as stated: productivity_ratio equals hours_completable_today /
\* available_hours x 100 rounded to one decimal when available hours > 0,
\* and 0 when available hours is 0; it lies in [0, 100].
C30_RatioOfReportedHours ==
    FeasibilityCase
        => /\ result.insights.productivity_ratio
                  = (IF Budget > 0
                     THEN RoundDiv(result.insights.hours_completable_today
                                       * 10000, Budget)
                     ELSE 0)
           /\ result.insights.productivity_ratio \in 0..1000

\* C30 amended: productivity_ratio equals the sum of the durations of the
\* marked rows / available_hours x 100 rounded to one decimal when available
\* hours > 0, and 0 when available hours is 0; it lies in [0, 100].
C30_RatioOfMarkedHours ==
    FeasibilityCase
        => /\ result.insights.productivity_ratio
                  = (IF Budget > 0
                     THEN RoundDiv(MarkedHours * 1000, Budget)
                     ELSE 0)
           /\ result.insights.productivity_ratio \in 0..1000

\* a positive ratio of marked hours that are not a whole number of tenths
C30_Witness ==
    /\ FeasibilityCase
    /\ Budget > 0
    /\ MarkedHours % 10 # 0
    /\ result.insights.productivity_ratio > 0

\* the response to a payload without a tasks field is a rejection
MissingFieldRejected ==
    request.tasks = "absent" => result.status = HTTP_400_BAD_REQUEST

\* the response to a payload with an empty task list is the trivial result
EmptyListAnswered ==
    (request.tasks = "list" /\ tasks = <<>>)
        => /\ result.status = HTTP_200_OK
           /\ \/ /\ result.body.k = "analysis"
                 /\ result.body.analyzed_tasks = <<>>
                 /\ result.body.total_tasks = 0
              \/ /\ result.body.k = "suggestions"
                 /\ result.body.suggestions = <<>>
                 /\ result.body.total_evaluated = 0

\* C27: the request layer rejects a payload with no tasks field with status
\* 400 and answers a payload with an empty task list with status 200 and
\* the trivial result, on both the analyze and the suggest endpoints.
C27_MissingFieldVersusEmptyList ==
    pc = "responded" => (MissingFieldRejected /\ EmptyListAnswered)

====
